---- MODULE Spec2Model ----
(***************************************************************************)
(* Verification model of the ICLR review fetcher (ICLRDataCollector and    *)
(* the FastAPI endpoints built on it).                                     *)
(*                                                                         *)
(* FetchSpec    ICLRDataCollector.fetch_filtered_notes: the paged GET loop *)
(*              against the notes listing (FairFetchSpec: the same with    *)
(*              weak fairness of its steps).                               *)
(* ProfileSpec  one call of fetch_author_profile, in both implementations, *)
(*              on every kind of response.                                 *)
(* RunSpec      one endpoint invocation after the other: the year loop,    *)
(*              the harvest of author ids, the gather over the profile     *)
(*              fetch tasks, the flattening and the summary.               *)
(* PoolSpec     the connection pool of a batch larger than its cap.        *)
(***************************************************************************)
EXTENDS Integers, Sequences, FiniteSets, TLC

\* ------------------------------------------------------------------------
\* Bounds of the model (not program constants)
\* ------------------------------------------------------------------------
\* the remote holds at most MaxPages non-empty pages for one filter/year
MaxPages == 2
\* a page carries at most MaxPageLen notes
MaxPageLen == 2

\* ------------------------------------------------------------------------
\* Program constants
\* ------------------------------------------------------------------------
batch_size == 1000

VARIABLES
    \* ---- fetch_filtered_notes: arguments, locals, outcome
    fpc,          \* "idle" | "loop" | "done" | "raised"
    filter_type,  \* argument
    year,         \* argument
    offset,       \* local
    all_notes,    \* local accumulator
    requests,     \* the GETs issued so far: their params, in order
    served,       \* the responses the remote gave, in order
    returned,     \* the return value once fpc = "done"
    err,          \* the exception once fpc = "raised"
    \* ---- one call of fetch_author_profile on its own
    ppc,          \* "idle" | "called" | "returned"
    p_impl,       \* "collector" (src/src/fetch_data.py) | "api" (src/api.py)
    p_author_id,  \* argument
    p_resp,       \* what session.get(url) does for this call
    p_out,        \* the outcome: a returned record or a raised exception
    \* ---- one invocation of an endpoint that harvests author profiles
    rpc,          \* "idle" | "years" | "batch" | "done" | "raised"
    variant,      \* which endpoint runs
    req_years,    \* request.years
    yi,           \* position of the `for year in years` loop
    all_author_ids, \* the set of harvested author ids
    results,      \* per-year summaries
    total_papers, \* len(all_papers_info)
    run_out,      \* the endpoint's return value / exception
    author_rows,  \* flattened_profiles as handed to the CSV writer
    \* ---- fetch_all_author_profiles: the gather over the fetch tasks
    bpc,          \* "idle" | "gathering" | "done" | "raised"
    author_ids,   \* the list argument
    tstate,       \* per task: "pending" | "open" | "done"
    profiles,     \* per task: the result slot of gather
    \* ---- history of the invocation
    fetch_count,  \* per author id: number of profile GETs issued
    referenced,   \* author ids present in the listed submissions
    multi_referenced, \* author ids present in more than one submission
    years_processed, \* loop positions whose extraction has completed
    failed_years,    \* years whose listing request raised
    carried,         \* an earlier invocation on this process collected author ids
    \* ---- the connection pool of one large batch, tasks counted per state
    pool_pc,      \* "idle" | "gathering" | "done"
    pool_pending, \* tasks that have not got a connection yet
    pool_open,    \* tasks holding an open connection
    pool_done,    \* tasks that have returned
    \* ---- one call of a review extractor on one submission
    xpc,          \* "idle" | "called" | "returned"
    x_impl,       \* "collector" (extract_reviews) | "api" (get_reviews_from_note)
    x_replies,    \* the submission's reply list
    x_out,        \* the outcome: the returned records or a raised exception
    \* ---- one call of a note extractor on one submission
    npc,          \* "idle" | "called" | "returned"
    n_impl,       \* "collector" (extract_paper_info) | "api" (extract_paper_from_note)
    n_note,       \* the submission
    n_out,        \* the outcome for the submission as given
    n_out_plain,  \* the outcome for the same submission with every field unwrapped
    \* ---- the /collect_filtered/ endpoint
    cpc,          \* "idle" | "years" | "done" | "raised"
    cf_years,     \* request.years
    cf_filter,    \* the filter_type query parameter
    ci,           \* position of the year loop
    cf_counts,    \* the results dict: year -> len(data)
    cf_out,       \* the response of the endpoint
    cf_fetched,   \* loop positions whose iteration called fetch_filtered_notes
    \* ---- the per-year extraction loop and its two CSV files
    ypc,          \* "idle" | "loop" | "saved" | "raised"
    y_impl,       \* "collector" | "api": whose extractors the loop calls
    papers_data,  \* the list of paper records
    reviews_data, \* the list of review records
    papers_csv,   \* the rows written to the papers file of the year
    reviews_csv   \* the rows written to the reviews file of the year

fetchVars == <<fpc, filter_type, year, offset, all_notes, requests, served,
               returned, err>>
profVars == <<ppc, p_impl, p_author_id, p_resp, p_out>>
runVars == <<rpc, variant, req_years, yi, all_author_ids, results, total_papers,
             run_out, author_rows>>
batchVars == <<bpc, author_ids, tstate, profiles>>
histVars == <<fetch_count, referenced, multi_referenced, years_processed,
              failed_years, carried>>
poolVars == <<pool_pc, pool_pending, pool_open, pool_done>>

reviewVars == <<xpc, x_impl, x_replies, x_out>>
paperVars == <<npc, n_impl, n_note, n_out, n_out_plain>>
collectVars == <<cpc, cf_years, cf_filter, ci, cf_counts, cf_out, cf_fetched>>
yearVars == <<ypc, y_impl, papers_data, reviews_data, papers_csv, reviews_csv>>

vars == <<fetchVars, profVars, runVars, batchVars, histVars, poolVars,
          reviewVars, paperVars, collectVars, yearVars>>

NoValue == "None"
\* a return value is modelled as <<v>>, "has not returned" as <<>>
NoReturn == <<>>
Return(v) == <<v>>
\* no exception raised
NoError == [type |-> "none", status |-> 0]

\* ------------------------------------------------------------------------
\* The remote listing
\* ------------------------------------------------------------------------
NoteIds == {"n1", "n2"}
Years == {2023, 2024}
\* categories a caller may ask for: the six of filter_params_map, the one
\* collect_filtered knows in addition, and an unknown one
FilterTypes == {"oral", "spotlight", "poster", "submitted", "reject",
                "withdrawn", "desk_rejected", "Oral"}
\* final status codes of a response: success, a 3xx that requests does not
\* follow (300 Multiple Choices, which may carry a body), a client error, a
\* server error
Statuses == {200, 300, 404, 500}

RECURSIVE SeqsUpTo(_, _)
SeqsUpTo(S, n) ==
    IF n = 0 THEN {<<>>}
    ELSE LET shorter == SeqsUpTo(S, n - 1)
         IN  shorter \cup {Append(s, x) : s \in {t \in shorter : Len(t) = n - 1}, x \in S}

Pages == SeqsUpTo(NoteIds, MaxPageLen)

\* a response: the status line, whether the body decodes as a JSON object,
\* and the list under its "notes" key (empty when the key is absent)
Responses == [status : Statuses, json : BOOLEAN, notes : Pages]
\* a body that does not decode has no notes; the body of an error response
\* is never read, so it is left empty
WellFormedResponses ==
    {r \in Responses :
        /\ r.json \/ r.notes = <<>>
        /\ r.status >= 400 => r.notes = <<>>}

\* ------------------------------------------------------------------------
\* fetch_filtered_notes
\* ------------------------------------------------------------------------
filter_params_map(y) ==
    [oral      |-> [key |-> "content.venue",   value |-> <<"ICLR ", y, " oral">>,
                    domain |-> <<"ICLR.cc/", y, "/Conference">>,
                    details |-> "replyCount,presentation,writable"],
     spotlight |-> [key |-> "content.venue",   value |-> <<"ICLR ", y, " spotlight">>,
                    domain |-> <<"ICLR.cc/", y, "/Conference">>,
                    details |-> "replyCount,presentation,writable"],
     poster    |-> [key |-> "content.venue",   value |-> <<"ICLR ", y, " poster">>,
                    domain |-> <<"ICLR.cc/", y, "/Conference">>,
                    details |-> "replyCount,presentation,writable"],
     submitted |-> [key |-> "content.venue",   value |-> <<"Submitted to ICLR ", y>>,
                    domain |-> <<"ICLR.cc/", y, "/Conference">>,
                    details |-> "replyCount,presentation,writable"],
     reject    |-> [key |-> "content.venueid",
                    value |-> <<"ICLR.cc/", y, "/Conference/Desk_Rejected_Submission">>,
                    domain |-> <<"ICLR.cc/", y, "/Conference">>,
                    details |-> "replyCount,presentation,writable"],
     withdrawn |-> [key |-> "content.venueid",
                    value |-> <<"ICLR.cc/", y, "/Conference/Withdrawn_Submission">>,
                    domain |-> <<"ICLR.cc/", y, "/Conference">>,
                    details |-> "replyCount,presentation,writable"]]

\* mutant: the check accepts every category
is_supported_any(ft, y) == TRUE
\* `filter_type not in filter_params_map` negated
is_supported(ft, y) == ft \in DOMAIN filter_params_map(y)

\* the parameters of one page request: base_params.copy() plus limit/offset
page_params(ft, y, off) ==
    [base   |-> IF ft \in DOMAIN filter_params_map(y)
                THEN filter_params_map(y)[ft] ELSE NoValue,
     limit  |-> batch_size,
     offset |-> off]

\* mutant: only server errors are taken for a failure
raises_for_status_5xx(status) == status >= 500 /\ status < 600
\* response.raise_for_status(): raises HTTPError for 4xx and 5xx only
raises_for_status(status) == status >= 400 /\ status < 600

\* mutant: a page shorter than the page size ends the loop
is_last_page_short(notes) == Len(notes) < batch_size
\* `if not notes: break`
is_last_page(notes) == notes = <<>>

\* mutant: the page replaces what was accumulated
extend_replace(acc, notes) == notes
\* all_notes.extend(notes)
extend(acc, notes) == acc \o notes

\* mutant: the offset advances by the number of notes received
next_offset_by_len(off, notes) == off + Len(notes)
\* offset += batch_size
next_offset(off, notes) == off + batch_size

\* number of non-empty pages taken so far
NonEmptyServed ==
    Cardinality({k \in 1..Len(served) :
        served[k].json /\ served[k].notes # <<>> /\ ~raises_for_status(served[k].status)})

FetchInit ==
    /\ fpc = "idle"
    /\ filter_type = NoValue
    /\ year = 0
    /\ offset = 0
    /\ all_notes = <<>>
    /\ requests = <<>>
    /\ served = <<>>
    /\ returned = NoReturn
    /\ err = NoError

\* entry of fetch_filtered_notes up to the loop: locals and the category check
Call ==
    /\ fpc = "idle"
    /\ \E ft \in FilterTypes, y \in Years :
        /\ filter_type' = ft
        /\ year' = y
        /\ offset' = 0
        /\ all_notes' = <<>>
        /\ IF ~is_supported(ft, y)
           THEN /\ fpc' = "raised"
                /\ err' = [type |-> "ValueError", status |-> 0]
           ELSE /\ fpc' = "loop"
                /\ err' = err
    /\ UNCHANGED <<requests, served, returned>>
    /\ UNCHANGED <<profVars, runVars, batchVars, histVars, poolVars,
                   reviewVars, paperVars, collectVars, yearVars>>

\* one iteration of `while True`: the GET, the status check, the decode,
\* the emptiness test and the accumulation
FetchPage ==
    /\ fpc = "loop"
    /\ \E resp \in WellFormedResponses :
        \* the remote runs out of data after MaxPages non-empty pages
        /\ (NonEmptyServed >= MaxPages) =>
               (raises_for_status(resp.status) \/ ~resp.json \/ resp.notes = <<>>)
        /\ requests' = Append(requests, page_params(filter_type, year, offset))
        /\ served' = Append(served, resp)
        /\ IF raises_for_status(resp.status)
           THEN /\ fpc' = "raised"
                /\ err' = [type |-> "HTTPError", status |-> resp.status]
                /\ UNCHANGED <<all_notes, offset, returned>>
           ELSE IF ~resp.json
           THEN /\ fpc' = "raised"
                /\ err' = [type |-> "JSONDecodeError", status |-> 0]
                /\ UNCHANGED <<all_notes, offset, returned>>
           ELSE IF is_last_page(resp.notes)
           THEN /\ fpc' = "done"
                /\ returned' = Return(all_notes)
                /\ UNCHANGED <<all_notes, offset, err>>
           ELSE /\ all_notes' = extend(all_notes, resp.notes)
                /\ offset' = next_offset(offset, resp.notes)
                /\ UNCHANGED <<fpc, returned, err>>
    /\ UNCHANGED <<filter_type, year>>
    /\ UNCHANGED <<profVars, runVars, batchVars, histVars, poolVars,
                   reviewVars, paperVars, collectVars, yearVars>>

\* ------------------------------------------------------------------------
\* Text: a Python str is a sequence of one-character (or atomic) tokens
\* ------------------------------------------------------------------------
RECURSIVE Join(_, _)
\* sep.join(list)
Join(list, sep) ==
    IF list = <<>> THEN <<>>
    ELSE IF Len(list) = 1 THEN list[1]
    ELSE list[1] \o sep \o Join(Tail(list), sep)

RECURSIVE SplitFrom(_, _, _)
SplitFrom(s, c, cur) ==
    IF s = <<>> THEN <<cur>>
    ELSE IF s[1] = c THEN <<cur>> \o SplitFrom(Tail(s), c, <<>>)
    ELSE SplitFrom(Tail(s), c, Append(cur, s[1]))

\* s.split(c): never empty, "" gives [""]
Split(s, c) == SplitFrom(s, c, <<>>)

WhiteSpace == {" "}

RECURSIVE LStrip(_)
LStrip(s) ==
    IF s # <<>> /\ s[1] \in WhiteSpace THEN LStrip(Tail(s)) ELSE s

RECURSIVE RStrip(_)
RStrip(s) ==
    IF s # <<>> /\ s[Len(s)] \in WhiteSpace
    THEN RStrip(SubSeq(s, 1, Len(s) - 1)) ELSE s

\* s.strip()
Strip(s) == RStrip(LStrip(s))

\* s.replace(old, new) for one-character old and new
Replace(s, old, new) == [k \in 1..Len(s) |-> IF s[k] = old THEN new ELSE s[k]]

SeqToSet(s) == {s[k] : k \in 1..Len(s)}

\* ------------------------------------------------------------------------
\* The author profile page and fetch_author_profile
\* ------------------------------------------------------------------------
\* an element that soup.find(...) does not find
NoElement == <<"<no element>">>

\* texts of the page
NameText == <<" ", "A", "n", "n", " ">>
AffilText == <<"M", "I", "T">>
PrefText == <<"A", ".">>
MailText == <<"a", "@", "x">>
JoinedText == <<" ", "2", "0", "1", "9", " ">>
\* the en-dash character U+2013
EnDash == "<U+2013>"
TimeText == <<"2", "0", "1", "5", EnDash, "2", "0", "1", "8">>
HistoryRow1 == [position |-> <<"P", "h", "D">>, institution |-> <<"M", "I", "T">>,
                timeframe |-> TimeText]
HistoryRow2 == [position |-> <<" ", "P", "r", "o", "f">>, institution |-> NoElement,
                timeframe |-> NoElement]
RelationRow4 == << <<"A", "d", "v">>, <<"B", "o", "b">>, <<"b", "@", "x">>, TimeText >>
RelationRow3 == << <<"A", "d", "v">>, <<"B", "o", "b">>, TimeText >>
ExpertiseRow2 == << <<"M", "L">>, TimeText >>
ExpertiseRow1 == << <<"M", "L">> >>
LinkHome == [text |-> <<" ", "H", "o", "m", "e", " ", "P", "g">>, href |-> <<"h", ":", "/">>]

\* the parsed document: what the find/find_all calls of the parser see
ProfilePages ==
    [h1        : {NoElement, NameText},
     h3        : {NoElement, AffilText},
     names     : {NoElement, PrefText},
     emails    : {<<>>, <<MailText>>},
     links     : {<<>>, <<LinkHome>>},
     history   : {<<>>, <<HistoryRow1>>, <<HistoryRow1, HistoryRow2>>},
     relations : {<<>>, <<RelationRow4>>, <<RelationRow3, RelationRow4>>},
     expertise : {<<>>, <<ExpertiseRow1, ExpertiseRow2>>},
     \* the glyphicon-calendar span: absent, followed by the date text, or
     \* present without the sibling text node
     calendar  : {"absent", "ok", "no_sibling"}]

ProfileStatuses == {200, 204, 404, 500}

PageAbsent ==
    [h1 |-> NoElement, h3 |-> NoElement, names |-> NoElement, emails |-> <<>>,
     links |-> <<>>, history |-> <<>>, relations |-> <<>>, expertise |-> <<>>,
     calendar |-> "absent"]

\* what session.get(url) / resp.text() do: a network error, or a response
\* with its status and document
NetError == [kind |-> "network_error", status |-> 0, page |-> PageAbsent]
HttpResponse(st, pg) == [kind |-> "response", status |-> st, page |-> pg]

text_or(el, default) == IF el = NoElement THEN default ELSE Strip(el)

RECURSIVE SelectRows(_, _)
\* the rows with at least n sub-columns
SelectRows(rows, n) ==
    IF rows = <<>> THEN <<>>
    ELSE IF Len(rows[1]) >= n THEN <<rows[1]>> \o SelectRows(Tail(rows), n)
    ELSE SelectRows(Tail(rows), n)

parse_history(rows) ==
    [k \in 1..Len(rows) |->
        [position    |-> text_or(rows[k].position, <<>>),
         institution |-> text_or(rows[k].institution, <<>>),
         timeframe   |-> IF rows[k].timeframe = NoElement THEN <<>>
                         ELSE Replace(Strip(rows[k].timeframe), EnDash, "-")]]

parse_relations(rows) ==
    LET ok == SelectRows(rows, 4)
    IN  [k \in 1..Len(ok) |->
            [type |-> Strip(ok[k][1]), name |-> Strip(ok[k][2]),
             timeframe |-> Replace(Strip(ok[k][4]), EnDash, "-")]]

parse_expertise(rows) ==
    LET ok == SelectRows(rows, 2)
    IN  [k \in 1..Len(ok) |->
            [area |-> Strip(ok[k][1]),
             timeframe |-> Replace(Strip(ok[k][2]), EnDash, "-")]]

parse_links(links) ==
    [k \in 1..Len(links) |->
        [label |-> Replace(Strip(links[k].text), " ", "_"), href |-> links[k].href]]

\* an outcome of a coroutine: a returned value or a raised exception
Returned(v) == [raised |-> FALSE, value |-> v]
Raised(e) == [raised |-> TRUE, value |-> [error |-> e]]

\* the body of the try block of ICLRDataCollector.fetch_author_profile
profile_try(author_id, resp) ==
    IF resp.kind = "network_error" THEN Raised("ClientError")
    ELSE IF resp.status # 200 THEN Returned([author_id |-> author_id])
    ELSE IF resp.page.calendar = "no_sibling" THEN Raised("AttributeError")
    ELSE LET pg == resp.page
             name == text_or(pg.h1, <<>>)
         IN  Returned(
               [author_id |-> author_id,
                name |-> name,
                preferred_name |-> text_or(pg.names, name),
                affiliation |-> text_or(pg.h3, <<>>),
                emails |-> Join([k \in 1..Len(pg.emails) |-> Strip(pg.emails[k])],
                                <<",", " ">>),
                joined_date |-> IF pg.calendar = "ok" THEN Strip(JoinedText)
                                ELSE <<NoValue>>,
                personal_links |-> parse_links(pg.links),
                career_and_education_history |-> parse_history(pg.history),
                advisors_relations_and_conflicts |-> parse_relations(pg.relations),
                expertise |-> parse_expertise(pg.expertise)])

\* the body of the try block of fetch_author_profile in src/api.py
api_profile_try(author_id, resp) ==
    IF resp.kind = "network_error" THEN Raised("ClientError")
    ELSE IF resp.status # 200 THEN Returned([author_id |-> author_id])
    ELSE IF resp.page.calendar = "no_sibling" THEN Raised("AttributeError")
    ELSE LET pg == resp.page
         IN  Returned(
               [author_id |-> author_id,
                name |-> text_or(pg.h1, <<>>),
                affiliation |-> text_or(pg.h3, <<>>),
                joined_date |-> IF pg.calendar = "ok" THEN Strip(JoinedText)
                                ELSE <<NoValue>>,
                personal_links |-> parse_links(pg.links),
                career_and_education_history |-> parse_history(pg.history),
                advisors |-> parse_relations(pg.relations),
                expertise |-> parse_expertise(pg.expertise)])

\* mutant: no handler, the exception leaves the coroutine
except_Exception_missing(author_id, out) == out
\* `except Exception as e: return {"author_id": author_id, "error": str(e)}`
except_Exception(author_id, out) ==
    IF out.raised
    THEN Returned([author_id |-> author_id, error |-> out.value.error])
    ELSE out

\* ICLRDataCollector.fetch_author_profile
fetch_author_profile(author_id, resp) ==
    except_Exception(author_id, profile_try(author_id, resp))

\* fetch_author_profile of src/api.py
api_fetch_author_profile(author_id, resp) ==
    except_Exception(author_id, api_profile_try(author_id, resp))

\* author ids as the platform hands them out, and the empty entry
AuthorIdValues == { <<"a">>, <<"b">>, <<>> }

ProfileInit ==
    /\ ppc = "idle"
    /\ p_impl = NoValue
    /\ p_author_id = <<>>
    /\ p_resp = NetError
    /\ p_out = Returned([author_id |-> <<>>])

\* a caller awaits fetch_author_profile(session, author_id)
ProfileCall ==
    /\ ppc = "idle"
    /\ \E impl \in {"collector", "api"}, aid \in AuthorIdValues,
          resp \in {NetError} \cup
                   {HttpResponse(st, PageAbsent) : st \in ProfileStatuses \ {200}} \cup
                   {HttpResponse(200, pg) : pg \in ProfilePages} :
        /\ p_impl' = impl
        /\ p_author_id' = aid
        /\ p_resp' = resp
    /\ ppc' = "called"
    /\ UNCHANGED p_out
    /\ UNCHANGED <<fetchVars, runVars, batchVars, histVars, poolVars,
                   reviewVars, paperVars, collectVars, yearVars>>

\* the coroutine runs to its return (or raise)
ProfileReturn ==
    /\ ppc = "called"
    /\ p_out' = IF p_impl = "collector"
                THEN fetch_author_profile(p_author_id, p_resp)
                ELSE api_fetch_author_profile(p_author_id, p_resp)
    /\ ppc' = "returned"
    /\ UNCHANGED <<p_impl, p_author_id, p_resp>>
    /\ UNCHANGED <<fetchVars, runVars, batchVars, histVars, poolVars,
                   reviewVars, paperVars, collectVars, yearVars>>

\* ------------------------------------------------------------------------
\* The endpoints that harvest author profiles
\* ------------------------------------------------------------------------
\* bounds of one invocation
MaxYears == 2
MaxPapers == 2
MaxAuthors == 2

\* the connection cap of the profile session
limit == 50

\* "pre2024"   fetch_all_data_pre_2024          (src/src/api.py)
\* "v2"        fetch_all_data_2024_2026         (src/src/api.py)
\* "collector" ICLRDataCollector.collect_data_with_authors (src/src/fetch_data.py)
\* "api"       collect_data_with_authors        (src/api.py)
Variants == {"pre2024", "v2", "collector", "api"}

\* content.authorids of one submission
AuthorIdLists == SeqsUpTo(AuthorIdValues, MaxAuthors)
\* what the listing of one year yields: the submissions, or an exception
Listings == [ok : {TRUE}, papers : SeqsUpTo(AuthorIdLists, MaxPapers)]
              \cup {[ok |-> FALSE, papers |-> <<>>]}

\* get_conference_papers / get_papers_by_invitation: the listing, [] on error
get_conference_papers(listing) == IF listing.ok THEN listing.papers ELSE <<>>

\* the author_ids / authorids field of extract_paper_info and
\* extract_paper_from_note: ", ".join(content.get('authorids', []))
extract_author_ids(authorids) == Join(authorids, <<",", " ">>)

\* mutant: the pieces are not stripped
harvest_unstripped(joined) == SeqToSet(Split(joined, ","))
\* `for aid in str(paper_info["author_ids"]).split(","): add(aid.strip())`
harvest(joined) == {Strip(piece) : piece \in SeqToSet(Split(joined, ","))}

\* the ids one submission adds to all_author_ids
paper_author_ids(v, authorids) ==
    LET joined == extract_author_ids(authorids)
    IN  IF joined = <<>> THEN {}
        ELSE IF v = "v2" THEN harvest(joined) \ {<<>>}
        ELSE harvest(joined)

RECURSIVE harvest_all(_, _)
harvest_all(v, papers) ==
    IF papers = <<>> THEN {}
    ELSE paper_author_ids(v, papers[1]) \cup harvest_all(v, Tail(papers))

\* the `continue` at the head of the year loop
wrong_endpoint(v, y) ==
    \/ v = "pre2024" /\ y >= 2024
    \/ v = "v2" /\ y < 2024

\* results[year] of fetch_all_data_pre_2024 / fetch_all_data_2024_2026
year_summary(v, y, papers) ==
    IF wrong_endpoint(v, y) THEN [error |-> "use the other endpoint", total_papers |-> 0]
    ELSE IF v = "v2" /\ papers = <<>> THEN [error |-> "No papers found", total_papers |-> 0]
    ELSE [error |-> "", total_papers |-> Len(papers)]

\* len(all_papers_info) after one more year; only the two
\* collect_data_with_authors handlers keep that list
count_papers(v, total, papers) ==
    IF v \in {"collector", "api"} THEN total + Len(papers) ELSE total

\* results after one more year; the two other endpoints keep no such dict
record_year(v, res, y, papers) ==
    IF v \in {"pre2024", "v2"}
    THEN [k \in DOMAIN res \cup {y} |->
            IF k = y THEN year_summary(v, y, papers) ELSE res[k]]
    ELSE res

Get(rec, key, default) == IF key \in DOMAIN rec THEN rec[key] ELSE default

\* the orders in which list(all_author_ids) can enumerate the set
RECURSIVE list_of(_)
\* mutant: the ids are kept in a list, so an id referenced twice occurs twice
list_with_repeats(S) ==
    {q \in SeqsUpTo(S, Cardinality(S) + 1) : SeqToSet(q) = S}
list_of(S) ==
    IF S = {} THEN {<<>>}
    ELSE UNION {{<<x>> \o q : q \in list_of(S \ {x})} : x \in S}

OpenConnections(ts) == Cardinality({i \in DOMAIN ts : ts[i] = "open"})

\* mutant: a session without the connector's cap
can_acquire_unlimited(n_open) == TRUE
\* aiohttp.TCPConnector(limit=50): a connection is handed out below the cap
can_acquire(n_open) == n_open < limit

\* mutant: the first finished task ends the wait
gather_complete_first(ts) == \E i \in DOMAIN ts : ts[i] = "done"
\* `await asyncio.gather(*tasks)` returns when every task has returned
gather_complete(ts) == \A i \in DOMAIN ts : ts[i] = "done"

NoProfile == [pending |-> TRUE]

\* mutant: results are collected in completion order
store_next_free(ps, i, v) ==
    LET free == {k \in DOMAIN ps : ps[k] = NoProfile}
        k == CHOOSE m \in free : \A n \in free : m <= n
    IN  [ps EXCEPT ![k] = v]
\* gather keeps the result of the i-th awaitable at position i
store(ps, i, v) == [ps EXCEPT ![i] = v]

\* mutant: the batch starts as soon as one year has been processed
years_exhausted_early(i, years) == i > Len(years) \/ i > 1
\* the `for year in years` loop has run out
years_exhausted(i, years) == i > Len(years)

\* ---- flattening
advisors_str(p, key) ==
    LET adv == Get(p, key, <<>>)
    IN  Join([k \in 1..Len(adv) |->
                adv[k].type \o <<":", " ">> \o adv[k].name \o <<" ", "(">>
                    \o adv[k].timeframe \o <<")">>],
             <<";", " ">>)

expertise_str(p) ==
    LET ex == Get(p, "expertise", <<>>)
    IN  Join([k \in 1..Len(ex) |->
                ex[k].area \o <<" ", "(">> \o ex[k].timeframe \o <<")">>],
             <<";", " ">>)

links_str(p) ==
    LET ls == Get(p, "personal_links", <<>>)
    IN  Join([k \in 1..Len(ls) |-> ls[k].label \o <<":", " ">> \o ls[k].href],
             <<",", " ">>)

scalar_fields(p) ==
    [author_id      |-> Get(p, "author_id", <<>>),
     name           |-> Get(p, "name", <<>>),
     affiliation    |-> Get(p, "affiliation", <<>>),
     joined_date    |-> Get(p, "joined_date", <<>>),
     personal_links |-> links_str(p),
     advisors       |-> advisors_str(p, "advisors_relations_and_conflicts"),
     expertise      |-> expertise_str(p)]

\* mutant: the history columns are joined with ", "
flatten_one_row_comma(p) ==
    LET h == Get(p, "career_and_education_history", <<>>)
    IN  [scalars      |-> scalar_fields(p),
         positions    |-> Join([k \in 1..Len(h) |-> h[k].position], <<",", " ">>),
         institutions |-> Join([k \in 1..Len(h) |-> h[k].institution], <<",", " ">>),
         timeframes   |-> Join([k \in 1..Len(h) |-> h[k].timeframe], <<",", " ">>)]
\* policy (a): one row per profile (fetch_all_data_pre_2024 / _2024_2026)
flatten_one_row(p) ==
    LET h == Get(p, "career_and_education_history", <<>>)
    IN  [scalars      |-> scalar_fields(p),
         positions    |-> Join([k \in 1..Len(h) |-> h[k].position], <<";", " ">>),
         institutions |-> Join([k \in 1..Len(h) |-> h[k].institution], <<";", " ">>),
         timeframes   |-> Join([k \in 1..Len(h) |-> h[k].timeframe], <<";", " ">>)]

\* mutant: a profile without history yields no row
flatten_per_entry_no_fallback(p) ==
    LET h == Get(p, "career_and_education_history", <<>>)
    IN  [k \in 1..Len(h) |->
            [scalars     |-> scalar_fields(p),
             position    |-> h[k].position,
             institution |-> h[k].institution,
             timeframe   |-> h[k].timeframe]]
\* policy (b): one row per career entry (ICLRDataCollector.collect_data_with_authors)
flatten_per_entry(p) ==
    LET h == Get(p, "career_and_education_history", <<>>)
    IN  IF h # <<>>
        THEN [k \in 1..Len(h) |->
                [scalars     |-> scalar_fields(p),
                 position    |-> h[k].position,
                 institution |-> h[k].institution,
                 timeframe   |-> h[k].timeframe]]
        ELSE << [scalars     |-> scalar_fields(p),
                 position    |-> <<>>,
                 institution |-> <<>>,
                 timeframe   |-> <<>>] >>

RECURSIVE flatten_rows(_, _)
\* the `for p in profiles` loop filling flattened_profiles
flatten_rows(v, ps) ==
    IF ps = <<>> THEN <<>>
    ELSE (IF v = "collector" THEN flatten_per_entry(ps[1])
          ELSE <<flatten_one_row(ps[1])>>) \o flatten_rows(v, Tail(ps))

\* the endpoint's success summary
summary(v, ids, res, total) ==
    [status |-> "success", author_count |-> Cardinality(ids),
     total_papers |-> total, results |-> res]

\* the responses a profile request can get inside a batch
PageFull ==
    [h1 |-> NameText, h3 |-> AffilText, names |-> NoElement, emails |-> <<>>,
     links |-> <<>>, history |-> <<HistoryRow1, HistoryRow2>>,
     relations |-> <<RelationRow4>>, expertise |-> <<>>, calendar |-> "ok"]
BatchResponses ==
    {NetError, HttpResponse(404, PageAbsent), HttpResponse(200, PageFull)}

NoOutput == [status |-> "none"]

RunInit ==
    /\ rpc = "idle"
    /\ variant = NoValue
    /\ req_years = <<>>
    /\ yi = 1
    /\ all_author_ids = {}
    /\ results = <<>>
    /\ total_papers = 0
    /\ run_out = NoOutput
    /\ author_rows = <<>>
    /\ bpc = "idle"
    /\ author_ids = <<>>
    /\ tstate = <<>>
    /\ profiles = <<>>
    /\ fetch_count = [x \in AuthorIdValues |-> 0]
    /\ referenced = {}
    /\ multi_referenced = {}
    /\ years_processed = {}
    /\ failed_years = {}
    /\ carried = FALSE

\* mutant: the set lives on the process-wide collector and is never cleared
kept_author_ids(previous) == previous
\* `all_author_ids = set()` at the head of the handler: a new local,
\* whatever an earlier invocation left behind
fresh_author_ids(previous) == {}

\* a request arrives (the first, or one after an earlier invocation has
\* ended): the handler's locals are set up
Invoke ==
    /\ rpc \in {"idle", "done", "raised"}
    /\ \E v \in Variants, ys \in SeqsUpTo(Years, MaxYears) :
        /\ variant' = v
        /\ req_years' = ys
    /\ rpc' = "years"
    /\ yi' = 1
    /\ all_author_ids' = fresh_author_ids(all_author_ids)
    /\ results' = <<>>
    /\ total_papers' = 0
    /\ run_out' = NoOutput
    /\ author_rows' = <<>>
    /\ bpc' = "idle"
    /\ author_ids' = <<>>
    /\ tstate' = <<>>
    /\ profiles' = <<>>
    /\ fetch_count' = [x \in AuthorIdValues |-> 0]
    /\ referenced' = {}
    /\ multi_referenced' = {}
    /\ years_processed' = {}
    /\ failed_years' = {}
    /\ carried' = (carried \/ all_author_ids # {})
    /\ UNCHANGED <<fetchVars, profVars, poolVars,
                   reviewVars, paperVars, collectVars, yearVars>>

\* one iteration of `for year in years`: the listing, the extraction of
\* every submission, the harvest of its author ids, the per-year summary
ProcessYear ==
    /\ rpc = "years"
    /\ ~years_exhausted(yi, req_years)
    /\ \E listing \in Listings :
        LET y == req_years[yi]
            papers == IF wrong_endpoint(variant, y) THEN <<>>
                      ELSE get_conference_papers(listing)
        IN  /\ all_author_ids' = all_author_ids \cup harvest_all(variant, papers)
            /\ results' = record_year(variant, results, y, papers)
            /\ total_papers' = count_papers(variant, total_papers, papers)
            /\ referenced' = referenced \cup
                   UNION {SeqToSet(papers[k]) : k \in 1..Len(papers)}
            /\ multi_referenced' = multi_referenced \cup
                   {x \in AuthorIdValues :
                       Cardinality({k \in 1..Len(papers) : x \in SeqToSet(papers[k])})
                         + (IF x \in referenced THEN 1 ELSE 0) >= 2}
            /\ failed_years' =
                   IF ~wrong_endpoint(variant, y) /\ ~listing.ok
                   THEN failed_years \cup {y} ELSE failed_years
    /\ yi' = yi + 1
    /\ years_processed' = years_processed \cup {yi}
    /\ UNCHANGED <<rpc, variant, req_years, run_out, author_rows>>
    /\ UNCHANGED <<fetchVars, profVars, batchVars, fetch_count, carried, poolVars,
                   reviewVars, paperVars, collectVars, yearVars>>

\* after the loop: `if all_author_ids:` and the start of the batch
\* (asyncio.run(fetch_all_author_profiles(list(all_author_ids))) up to the
\* creation of the tasks)
StartBatch ==
    /\ rpc = "years"
    /\ years_exhausted(yi, req_years)
    /\ IF all_author_ids = {}
       THEN /\ rpc' = "done"
            /\ run_out' = summary(variant, all_author_ids, results, total_papers)
            /\ UNCHANGED <<batchVars>>
       ELSE IF variant = "api"
       THEN \* fetch_all_author_profiles is not defined in src/api.py
            /\ rpc' = "raised"
            /\ run_out' = [status |-> "NameError"]
            /\ UNCHANGED <<batchVars>>
       ELSE /\ \E order \in list_of(all_author_ids) :
                /\ author_ids' = order
                /\ tstate' = [i \in 1..Len(order) |-> "pending"]
                /\ profiles' = [i \in 1..Len(order) |-> NoProfile]
            /\ bpc' = "gathering"
            /\ rpc' = "batch"
            /\ UNCHANGED run_out
    /\ UNCHANGED <<variant, req_years, yi, all_author_ids, results, total_papers,
                   author_rows>>
    /\ UNCHANGED <<fetchVars, profVars, histVars, poolVars,
                   reviewVars, paperVars, collectVars, yearVars>>

\* a task's coroutine ends with outcome `out`; an exception leaving it is
\* re-raised by gather and ends the invocation
TaskEnds(i, out) ==
    IF out.raised
    THEN /\ bpc' = "raised"
         /\ rpc' = "raised"
         /\ run_out' = [status |-> out.value.error]
         /\ UNCHANGED <<tstate, profiles>>
    ELSE /\ tstate' = [tstate EXCEPT ![i] = "done"]
         /\ profiles' = store(profiles, i, out.value)
         /\ UNCHANGED <<bpc, rpc, run_out>>

\* task i reaches `session.get(url)`: it gets a connection from the pool,
\* or the connection attempt fails
TaskConnect(i) ==
    /\ bpc = "gathering"
    /\ tstate[i] = "pending"
    /\ can_acquire(OpenConnections(tstate))
    /\ fetch_count' = [fetch_count EXCEPT ![author_ids[i]] = @ + 1]
    /\ \E connected \in BOOLEAN :
        IF connected
        THEN /\ tstate' = [tstate EXCEPT ![i] = "open"]
             /\ UNCHANGED <<bpc, rpc, run_out, profiles>>
        ELSE TaskEnds(i, fetch_author_profile(author_ids[i], NetError))
    /\ UNCHANGED <<variant, req_years, yi, all_author_ids, results, total_papers,
                   author_rows, author_ids>>
    /\ UNCHANGED <<fetchVars, profVars, referenced, multi_referenced,
                   years_processed, failed_years, carried, poolVars,
                   reviewVars, paperVars, collectVars, yearVars>>

\* task i gets its response, parses it and returns, releasing the connection
TaskFinish(i) ==
    /\ bpc = "gathering"
    /\ tstate[i] = "open"
    /\ \E resp \in BatchResponses :
        TaskEnds(i, fetch_author_profile(author_ids[i], resp))
    /\ UNCHANGED <<variant, req_years, yi, all_author_ids, results, total_papers,
                   author_rows, author_ids>>
    /\ UNCHANGED <<fetchVars, profVars, histVars, poolVars,
                   reviewVars, paperVars, collectVars, yearVars>>

\* gather returns the result list; the handler flattens it, writes the
\* author file and returns its summary
GatherReturn ==
    /\ bpc = "gathering"
    /\ gather_complete(tstate)
    /\ bpc' = "done"
    /\ rpc' = "done"
    /\ author_rows' = flatten_rows(variant, profiles)
    /\ run_out' = summary(variant, all_author_ids, results, total_papers)
    /\ UNCHANGED <<variant, req_years, yi, all_author_ids, results, total_papers>>
    /\ UNCHANGED <<author_ids, tstate, profiles>>
    /\ UNCHANGED <<fetchVars, profVars, histVars, poolVars,
                   reviewVars, paperVars, collectVars, yearVars>>

\* ------------------------------------------------------------------------
\* The connection pool under a batch larger than the cap.  The tasks of a
\* batch differ only in their author id, which the pool does not look at,
\* so they are counted per state instead of being tracked one by one.
\* ------------------------------------------------------------------------
\* largest batch
MaxBatch == 52

PoolInit ==
    /\ pool_pc = "idle"
    /\ pool_pending = 0
    /\ pool_open = 0
    /\ pool_done = 0

\* fetch_all_author_profiles(author_ids): one task per id is created
PoolStart ==
    /\ pool_pc = "idle"
    /\ \E n \in 1..MaxBatch : pool_pending' = n
    /\ pool_pc' = "gathering"
    /\ UNCHANGED <<pool_open, pool_done>>
    /\ UNCHANGED <<fetchVars, profVars, runVars, batchVars, histVars,
                   reviewVars, paperVars, collectVars, yearVars>>

\* a task gets a connection from the pool
PoolAcquire ==
    /\ pool_pc = "gathering"
    /\ pool_pending > 0
    /\ can_acquire(pool_open)
    /\ pool_pending' = pool_pending - 1
    /\ pool_open' = pool_open + 1
    /\ UNCHANGED <<pool_pc, pool_done>>
    /\ UNCHANGED <<fetchVars, profVars, runVars, batchVars, histVars,
                   reviewVars, paperVars, collectVars, yearVars>>

\* a task's connection attempt fails: it returns its error record
PoolConnectFails ==
    /\ pool_pc = "gathering"
    /\ pool_pending > 0
    /\ can_acquire(pool_open)
    /\ pool_pending' = pool_pending - 1
    /\ pool_done' = pool_done + 1
    /\ UNCHANGED <<pool_pc, pool_open>>
    /\ UNCHANGED <<fetchVars, profVars, runVars, batchVars, histVars,
                   reviewVars, paperVars, collectVars, yearVars>>

\* a task leaves `async with session.get(url)`: its connection is released
PoolRelease ==
    /\ pool_pc = "gathering"
    /\ pool_open > 0
    /\ pool_open' = pool_open - 1
    /\ pool_done' = pool_done + 1
    /\ UNCHANGED <<pool_pc, pool_pending>>
    /\ UNCHANGED <<fetchVars, profVars, runVars, batchVars, histVars,
                   reviewVars, paperVars, collectVars, yearVars>>

\* gather returns
PoolJoin ==
    /\ pool_pc = "gathering"
    /\ pool_pending = 0
    /\ pool_open = 0
    /\ pool_pc' = "done"
    /\ UNCHANGED <<pool_pending, pool_open, pool_done>>
    /\ UNCHANGED <<fetchVars, profVars, runVars, batchVars, histVars,
                   reviewVars, paperVars, collectVars, yearVars>>

\* ------------------------------------------------------------------------
\* Content values and the review extractors
\* ------------------------------------------------------------------------
\* bound: replies of one submission
MaxReplies == 2

\* a content value as the platform sends it: v itself, or {"value": v}
Plain(v) == [shape |-> "plain", v |-> v]
Wrapped(v) == [shape |-> "wrapped", v |-> v]
\* Python's None
PyNone == [shape |-> "none", v |-> <<>>]

\* `sub in s` for strings
Contains(s, sub) ==
    \E i \in 0..(Len(s) - Len(sub)) : SubSeq(s, i + 1, i + Len(sub)) = sub

\* bool(val)
truthy(val) ==
    \/ val.shape = "wrapped"
    \/ val.shape = "plain" /\ val.v # <<>>

\* f"{val}"
fstr(val) ==
    IF val.shape = "plain" THEN val.v
    ELSE IF val.shape = "wrapped" THEN <<"{'value': '">> \o val.v \o <<"'}">>
    ELSE <<"None">>

\* section.upper()
upper(section) ==
    [summary |-> "SUMMARY", strengths |-> "STRENGTHS", weaknesses |-> "WEAKNESSES",
     questions |-> "QUESTIONS", limitations |-> "LIMITATIONS",
     review |-> "REVIEW"][section]

\* invitation strings
Invitations ==
    {<<"ICLR.cc/2023/Conference/Paper1/-/", "Official", "_", "Review">>,
     <<"ICLR.cc/2023/Conference/Paper1/-/", "Meta", "_", "Review">>,
     <<"ICLR.cc/2023/Conference/Paper1/-/", "Official", "_", "Comment">>}

\* the `signatures` key of a reply: absent, an empty list, one signature
SignatureFields ==
    {[present |-> FALSE, list |-> <<>>],
     [present |-> TRUE, list |-> <<>>],
     [present |-> TRUE, list |-> << <<"Reviewer", "_", "1">> >>]}

\* the `content` key of a reply: absent, a dict of sections, or a value of
\* another shape (a string)
ContentAbsent == [kind |-> "absent", secs |-> <<>>]
ContentOkGood ==
    [kind |-> "dict",
     secs |-> [summary |-> Plain(<<"ok">>), strengths |-> Plain(<<"good", " ">>),
               rating |-> Plain(<<"8">>)]]
ContentReviewOnly ==
    [kind |-> "dict",
     secs |-> [review |-> Plain(<<"fine">>), summary |-> Plain(<<>>)]]
ReplyContents ==
    {ContentAbsent, ContentOkGood, ContentReviewOnly,
     [kind |-> "str", secs |-> <<>>],
     [kind |-> "dict",
      secs |-> [summary |-> Wrapped(<<"ok">>), questions |-> Wrapped(<<"why">>)]]}

Replies == [invitation : Invitations, signatures : SignatureFields,
            content : ReplyContents]

\* the outcome of handling one reply
NoRecord == [kind |-> "none"]
Record(r) == [kind |-> "record", record |-> r]
ReplyError(e) == [kind |-> "error", error |-> e]

\* content.get(key, default) on the dict of a reply
content_get(content, key, default) ==
    IF key \in DOMAIN content.secs THEN content.secs[key] ELSE default

\* reply.get('signatures', ['Anonymous'])
signatures_or_default(reply) ==
    IF reply.signatures.present THEN reply.signatures.list
    ELSE << <<"Anonymous">> >>

RECURSIVE section_lines(_, _)
\* the generator of the join in extract_reviews
section_lines(content, sections) ==
    IF sections = <<>> THEN <<>>
    ELSE (IF truthy(content_get(content, sections[1], PyNone))
          THEN << <<upper(sections[1]), ":", " ">>
                    \o fstr(content_get(content, sections[1], Plain(<<>>))) >>
          ELSE <<>>)
         \o section_lines(content, Tail(sections))

\* review_sections of extract_reviews
collector_review_sections ==
    <<"summary", "strengths", "weaknesses", "questions", "limitations", "review">>

\* `'Official_Review' in invitation or 'Review' in invitation`
collector_is_review(invitation) ==
    \/ Contains(invitation, <<"Official", "_", "Review">>)
    \/ Contains(invitation, <<"Review">>)

\* the body of the try block of extract_reviews for the k-th reply; the id
\* of a reply is its position in the reply list
collector_reply_try(k, reply, paper_id) ==
    IF ~collector_is_review(reply.invitation) THEN NoRecord
    ELSE IF reply.content.kind = "str" THEN ReplyError("AttributeError")
    ELSE IF signatures_or_default(reply) = <<>> THEN ReplyError("IndexError")
    ELSE LET content == reply.content
         IN  Record(
               [review_id |-> k,
                paper_id |-> paper_id,
                reviewer |-> signatures_or_default(reply)[1],
                full_review_text |->
                    Strip(Join(section_lines(content, collector_review_sections),
                               <<"\n\n">>)),
                rating |-> content_get(content, "rating", Plain(<<>>)),
                summary |-> content_get(content, "summary", Plain(<<>>)),
                strengths |-> content_get(content, "strengths", Plain(<<>>))])

\* `except Exception as e: print(...)`: the reply is dropped
except_reply(out) == IF out.kind = "error" THEN NoRecord ELSE out

\* get_value of get_reviews_from_note
api_get_value(content, field) ==
    LET val == content_get(content, field, Plain(<<>>))
    IN  IF val.shape = "wrapped" THEN Plain(val.v)
        ELSE IF truthy(val) THEN val ELSE Plain(<<>>)

\* review_sections of get_reviews_from_note
api_review_sections ==
    <<"summary", "strengths", "weaknesses", "questions", "limitations">>

RECURSIVE api_section_lines(_, _)
api_section_lines(content, sections) ==
    IF sections = <<>> THEN <<>>
    ELSE (IF truthy(api_get_value(content, sections[1]))
          THEN << <<upper(sections[1]), ":", " ">>
                    \o fstr(api_get_value(content, sections[1])) >>
          ELSE <<>>)
         \o api_section_lines(content, Tail(sections))

\* `'Official_Review' in invitation`
api_is_review(invitation) == Contains(invitation, <<"Official", "_", "Review">>)

\* the body of the reply loop of get_reviews_from_note for the k-th reply
api_reply(k, reply, paper_id) ==
    IF ~api_is_review(reply.invitation) THEN NoRecord
    ELSE IF reply.content.kind = "str" THEN ReplyError("AttributeError")
    ELSE IF signatures_or_default(reply) = <<>> THEN ReplyError("IndexError")
    ELSE LET content == reply.content
         IN  Record(
               [review_id |-> k,
                paper_id |-> paper_id,
                reviewer |-> signatures_or_default(reply)[1],
                full_review_text |->
                    Strip(Join(api_section_lines(content, api_review_sections),
                               <<"\n\n">>)),
                rating |-> api_get_value(content, "rating"),
                summary |-> api_get_value(content, "summary"),
                strengths |-> api_get_value(content, "strengths")])

RECURSIVE collect_reviews(_, _)
\* the reply loop: outcomes are taken in reply order; a record is appended,
\* an exception that leaves the loop body ends the call
collect_reviews(outcomes, acc) ==
    IF outcomes = <<>> THEN Returned(acc)
    ELSE IF outcomes[1].kind = "error" THEN Raised(outcomes[1].error)
    ELSE IF outcomes[1].kind = "record"
         THEN collect_reviews(Tail(outcomes), Append(acc, outcomes[1].record))
    ELSE collect_reviews(Tail(outcomes), acc)

\* ICLRDataCollector.extract_reviews on a submission with these replies
extract_reviews(replies, paper_id) ==
    collect_reviews(
        [k \in 1..Len(replies) |->
            except_reply(collector_reply_try(k, replies[k], paper_id))],
        <<>>)

\* get_reviews_from_note on a submission with these direct replies
get_reviews_from_note(replies, paper_id) ==
    collect_reviews(
        [k \in 1..Len(replies) |-> api_reply(k, replies[k], paper_id)], <<>>)

ReviewInit ==
    /\ xpc = "idle"
    /\ x_impl = NoValue
    /\ x_replies = <<>>
    /\ x_out = Returned(<<>>)

\* a caller hands a submission to one of the extractors
ReviewCall ==
    /\ xpc = "idle"
    /\ \E impl \in {"collector", "api"}, rs \in SeqsUpTo(Replies, MaxReplies) :
        /\ x_impl' = impl
        /\ x_replies' = rs
    /\ xpc' = "called"
    /\ UNCHANGED x_out
    /\ UNCHANGED <<fetchVars, profVars, runVars, batchVars, histVars, poolVars,
                   paperVars, collectVars, yearVars>>

\* the extractor runs to its return (or raise)
ReviewReturn ==
    /\ xpc = "called"
    /\ x_out' = IF x_impl = "collector"
                THEN extract_reviews(x_replies, "p1")
                ELSE get_reviews_from_note(x_replies, "p1")
    /\ xpc' = "returned"
    /\ UNCHANGED <<x_impl, x_replies>>
    /\ UNCHANGED <<fetchVars, profVars, runVars, batchVars, histVars, poolVars,
                   paperVars, collectVars, yearVars>>

\* ------------------------------------------------------------------------
\* The note extractors
\* ------------------------------------------------------------------------
\* the content fields the extractors read
ScalarFields == {"title", "abstract", "primary_area", "venue"}
ListFields == {"authors", "authorids", "keywords"}
PaperFields == ScalarFields \cup ListFields

\* how a content field arrives: not at all, as v, or as {"value": v}
FieldShapes == {"absent", "plain", "wrapped"}

\* the value v a field carries when it is present
FieldValue(field) ==
    IF field \in ListFields
    THEN << <<field, "1">>, <<field, "2">> >>
    ELSE <<field, " ", "text">>

\* a note: its id, whether it has a content attribute, and the shape of each
\* field
Notes == [id : {"p1"}, has_content : BOOLEAN,
          content : [PaperFields -> FieldShapes]]

\* `paper.content if hasattr(paper, 'content') else {}`
content_of(note) ==
    IF note.has_content THEN note.content ELSE [f \in PaperFields |-> "absent"]

\* mutant: content.get(field) without the default
note_get_none(content, field, default) ==
    IF content[field] = "absent" THEN PyNone
    ELSE IF content[field] = "plain" THEN Plain(FieldValue(field))
    ELSE Wrapped(FieldValue(field))
\* content.get(field, default) on the content of a note
note_get(content, field, default) ==
    IF content[field] = "absent" THEN default
    ELSE IF content[field] = "plain" THEN Plain(FieldValue(field))
    ELSE Wrapped(FieldValue(field))

\* ", ".join(val): over the items of a list, over the keys of a dict
join_comma(val) ==
    IF val.shape = "wrapped" THEN <<"value">> ELSE Join(val.v, <<", ">>)

\* ICLRDataCollector.extract_paper_info
extract_paper_info(note, venue) ==
    LET content == content_of(note)
    IN  Returned(
          [paper_id |-> note.id,
           title |-> note_get(content, "title", Plain(<<>>)),
           abstract |-> note_get(content, "abstract", Plain(<<>>)),
           authors |-> Plain(join_comma(note_get(content, "authors", Plain(<<>>)))),
           author_ids |->
               Plain(join_comma(note_get(content, "authorids", Plain(<<>>)))),
           keywords |-> Plain(join_comma(note_get(content, "keywords", Plain(<<>>)))),
           primary_area |-> note_get(content, "primary_area", Plain(<<>>)),
           venue |-> Plain(venue)])

\* get_value and get_list_value of extract_paper_from_note: a dict is
\* replaced by its 'value' entry
paper_get_value(content, field) ==
    LET val == note_get(content, field, Plain(<<>>))
    IN  IF val.shape = "wrapped" THEN Plain(val.v) ELSE val

\* extract_paper_from_note
extract_paper_from_note(note) ==
    LET content == content_of(note)
    IN  Returned(
          [paper_id |-> note.id,
           title |-> paper_get_value(content, "title"),
           abstract |-> paper_get_value(content, "abstract"),
           authors |-> Plain(join_comma(paper_get_value(content, "authors"))),
           authorids |-> Plain(join_comma(paper_get_value(content, "authorids"))),
           keywords |-> Plain(join_comma(paper_get_value(content, "keywords"))),
           primary_area |-> paper_get_value(content, "primary_area"),
           venue |-> paper_get_value(content, "venue")])

\* the same note with every wrapped field sent plain
unwrapped(note) ==
    [note EXCEPT !.content =
        [f \in PaperFields |-> IF note.content[f] = "wrapped" THEN "plain"
                               ELSE note.content[f]]]

\* the extractor of one implementation applied to a note
extract(impl, note) ==
    IF impl = "collector" THEN extract_paper_info(note, <<"ICLR", " ", "2023">>)
    ELSE extract_paper_from_note(note)

PaperInit ==
    /\ npc = "idle"
    /\ n_impl = NoValue
    /\ n_note = [id |-> "p1", has_content |-> FALSE,
                 content |-> [f \in PaperFields |-> "absent"]]
    /\ n_out = Returned(<<>>)
    /\ n_out_plain = Returned(<<>>)

\* a caller hands a note to one of the extractors
PaperCall ==
    /\ npc = "idle"
    /\ \E impl \in {"collector", "api"}, note \in Notes :
        /\ n_impl' = impl
        /\ n_note' = note
    /\ npc' = "called"
    /\ UNCHANGED <<n_out, n_out_plain>>
    /\ UNCHANGED <<fetchVars, profVars, runVars, batchVars, histVars, poolVars,
                   reviewVars, collectVars, yearVars>>

\* the extractor returns its record; n_out_plain is what it returns for the
\* same note with plain values
PaperReturn ==
    /\ npc = "called"
    /\ n_out' = extract(n_impl, n_note)
    /\ n_out_plain' = extract(n_impl, unwrapped(n_note))
    /\ npc' = "returned"
    /\ UNCHANGED <<n_impl, n_note>>
    /\ UNCHANGED <<fetchVars, profVars, runVars, batchVars, histVars, poolVars,
                   reviewVars, collectVars, yearVars>>

\* ------------------------------------------------------------------------
\* The /collect_filtered/ endpoint: ICLRDataCollector.collect_filtered once
\* per requested year
\* ------------------------------------------------------------------------
\* filter_type.lower()
lower(ft) == IF ft = "Oral" THEN "oral" ELSE ft

\* the keys of filter_map in ICLRDataCollector.collect_filtered
filter_map_keys ==
    {"oral", "spotlight", "poster", "reject", "withdrawn", "desk_rejected"}

\* results[year] = len(data)
set_count(counts, y, n) ==
    [k \in DOMAIN counts \cup {y} |-> IF k = y THEN n ELSE counts[k]]

CollectInit ==
    /\ cpc = "idle"
    /\ cf_years = <<>>
    /\ cf_filter = NoValue
    /\ ci = 1
    /\ cf_counts = <<>>
    /\ cf_out = NoOutput
    /\ cf_fetched = {}

\* a request arrives: results = {}
CFInvoke ==
    /\ cpc = "idle"
    /\ \E ys \in SeqsUpTo(Years, MaxYears), ft \in FilterTypes :
        /\ cf_years' = ys
        /\ cf_filter' = ft
    /\ cpc' = "years"
    /\ ci' = 1
    /\ cf_counts' = <<>>
    /\ cf_fetched' = {}
    /\ UNCHANGED cf_out
    /\ UNCHANGED <<fetchVars, profVars, runVars, batchVars, histVars, poolVars,
                   reviewVars, paperVars, yearVars>>

\* what one call of fetch_filtered_notes with a supported category can end
\* in: the notes of the pages before the empty one, or the error of a page
\* request
FetchedNotes == SeqsUpTo(NoteIds, MaxPages * MaxPageLen)
FetchErrors == {"HTTPError", "JSONDecodeError"}
FetchOutcome(notes, e) == IF e = "" THEN Returned(notes) ELSE Raised(e)

\* ICLRDataCollector.collect_filtered(year, filter_type), given how its call
\* of fetch_filtered_notes ends: [] for a category filter_map lacks, the
\* exception of the fetch unhandled, else one row per note
collector_collect_filtered(ft, y, fetched) ==
    IF lower(ft) \notin filter_map_keys THEN Returned(<<>>)
    ELSE IF ~is_supported(ft, y) THEN Raised("ValueError")
    ELSE IF fetched.raised THEN fetched
    ELSE Returned([k \in 1..Len(fetched.value) |->
                     [paper_id |-> fetched.value[k], year |-> y]])

\* one iteration of `for year in request.years`; the endpoint has no
\* handler, so an exception of the call leaves it
CFYear ==
    /\ cpc = "years"
    /\ ci <= Len(cf_years)
    /\ \E notes \in FetchedNotes, e \in FetchErrors \cup {""} :
        LET data == collector_collect_filtered(cf_filter, cf_years[ci],
                                               FetchOutcome(notes, e))
        IN  IF data.raised
            THEN /\ cpc' = "raised"
                 /\ cf_out' = [status |-> "error", error |-> data.value.error]
                 /\ UNCHANGED <<ci, cf_counts>>
            ELSE /\ cf_counts' = set_count(cf_counts, cf_years[ci], Len(data.value))
                 /\ ci' = ci + 1
                 /\ UNCHANGED <<cpc, cf_out>>
    /\ cf_fetched' = IF lower(cf_filter) \in filter_map_keys
                     THEN cf_fetched \cup {ci} ELSE cf_fetched
    /\ UNCHANGED <<cf_years, cf_filter>>
    /\ UNCHANGED <<fetchVars, profVars, runVars, batchVars, histVars, poolVars,
                   reviewVars, paperVars, yearVars>>

\* the loop has run out: return {"status": "success", "counts": results}
CFReturn ==
    /\ cpc = "years"
    /\ ci > Len(cf_years)
    /\ cpc' = "done"
    /\ cf_out' = [status |-> "success", counts |-> cf_counts]
    /\ UNCHANGED <<cf_years, cf_filter, ci, cf_counts, cf_fetched>>
    /\ UNCHANGED <<fetchVars, profVars, runVars, batchVars, histVars, poolVars,
                   reviewVars, paperVars, yearVars>>

\* ------------------------------------------------------------------------
\* The per-year extraction loop: collect_yearwise_data, collect_data and the
\* year body of fetch_all_data_2024_2026
\* ------------------------------------------------------------------------
\* the submissions a listing can hold: the id of the note, with or without
\* content
YearNotes ==
    [id : NoteIds, has_content : BOOLEAN,
     content : {[f \in PaperFields |-> "plain"]}]

\* the replies a submission can carry: none, a review, a review followed by
\* a review with an empty signatures list, a comment
YearReview(sig) ==
    [invitation |-> <<"ICLR.cc/2023/Conference/Paper1/-/", "Official", "_", "Review">>,
     signatures |-> [present |-> TRUE, list |-> sig],
     content |-> ContentOkGood]
YearReplyLists ==
    {<<>>,
     <<YearReview(<< <<"Reviewer", "_", "1">> >>)>>,
     <<YearReview(<< <<"Reviewer", "_", "1">> >>), YearReview(<<>>)>>,
     <<[YearReview(<<>>) EXCEPT
          !.invitation = <<"ICLR.cc/2023/Conference/Paper1/-/", "Official", "_", "Comment">>]>>}

\* the review extractor of one implementation applied to a submission:
\* `self.extract_reviews(paper, year, venue)`, `get_reviews_from_note(note, year)`
extract_reviews_of(impl, note, replies) ==
    IF impl = "collector" THEN extract_reviews(replies, note.id)
    ELSE get_reviews_from_note(replies, note.id)

\* mutant: a submission without content gets no paper record
append_paper_with_content(data, paper) ==
    IF paper.title = Plain(<<>>) THEN data ELSE Append(data, paper)
\* `papers_data.append(paper)`
append_paper(data, paper) == Append(data, paper)

YearInit ==
    /\ ypc = "idle"
    /\ y_impl = NoValue
    /\ papers_data = <<>>
    /\ reviews_data = <<>>
    /\ papers_csv = <<>>
    /\ reviews_csv = <<>>

\* the body of one year starts: `papers_data = []`, `reviews_data = []`
YearStart ==
    /\ ypc \in {"idle", "saved", "raised"}
    /\ \E impl \in {"collector", "api"} : y_impl' = impl
    /\ ypc' = "loop"
    /\ papers_data' = <<>>
    /\ reviews_data' = <<>>
    /\ papers_csv' = <<>>
    /\ reviews_csv' = <<>>
    /\ UNCHANGED <<fetchVars, profVars, runVars, batchVars, histVars, poolVars,
                   reviewVars, paperVars, collectVars>>

\* one iteration of `for paper in papers`: the paper record is appended,
\* the review records are added; an exception of the review extractor
\* leaves the loop before anything is written
YearPaper ==
    /\ ypc = "loop"
    /\ Len(papers_data) < MaxPapers
    /\ \E note \in YearNotes, replies \in YearReplyLists :
        LET paper == extract(y_impl, note)
            reviews == extract_reviews_of(y_impl, note, replies)
        IN  /\ papers_data' = append_paper(papers_data, paper.value)
            /\ IF reviews.raised
               THEN /\ ypc' = "raised"
                    /\ UNCHANGED reviews_data
               ELSE /\ reviews_data' = reviews_data \o reviews.value
                    /\ UNCHANGED ypc
    /\ UNCHANGED <<y_impl, papers_csv, reviews_csv>>
    /\ UNCHANGED <<fetchVars, profVars, runVars, batchVars, histVars, poolVars,
                   reviewVars, paperVars, collectVars>>

\* the listing has run out: both files of the year are written
YearSave ==
    /\ ypc = "loop"
    /\ ypc' = "saved"
    /\ papers_csv' = papers_data
    /\ reviews_csv' = reviews_data
    /\ UNCHANGED <<y_impl, papers_data, reviews_data>>
    /\ UNCHANGED <<fetchVars, profVars, runVars, batchVars, histVars, poolVars,
                   reviewVars, paperVars, collectVars>>

\* ------------------------------------------------------------------------
\* Specifications
\* ------------------------------------------------------------------------
FetchNext == Call \/ FetchPage

ModelInit ==
    FetchInit /\ ProfileInit /\ RunInit /\ PoolInit /\ ReviewInit /\ PaperInit
    /\ CollectInit /\ YearInit

FetchSpec == ModelInit /\ [][FetchNext]_vars
FairFetchSpec == FetchSpec /\ WF_vars(Call) /\ WF_vars(FetchPage)

ProfileNext == ProfileCall \/ ProfileReturn

ProfileSpec == ModelInit /\ [][ProfileNext]_vars

RunNext ==
    \/ Invoke
    \/ ProcessYear
    \/ StartBatch
    \/ \E i \in DOMAIN tstate : TaskConnect(i)
    \/ \E i \in DOMAIN tstate : TaskFinish(i)
    \/ GatherReturn

RunSpec == ModelInit /\ [][RunNext]_vars

PoolNext == PoolStart \/ PoolAcquire \/ PoolConnectFails \/ PoolRelease \/ PoolJoin

PoolSpec == ModelInit /\ [][PoolNext]_vars

ReviewNext == ReviewCall \/ ReviewReturn

ReviewSpec == ModelInit /\ [][ReviewNext]_vars

PaperNext == PaperCall \/ PaperReturn

PaperSpec == ModelInit /\ [][PaperNext]_vars

CollectNext == CFInvoke \/ CFYear \/ CFReturn

CollectSpec == ModelInit /\ [][CollectNext]_vars

YearNext == YearStart \/ YearPaper \/ YearSave

YearSpec == ModelInit /\ [][YearNext]_vars

\* ------------------------------------------------------------------------
\* Properties of fetch_filtered_notes
\* ------------------------------------------------------------------------
RECURSIVE ConcatNotes(_)
ConcatNotes(rs) ==
    IF rs = <<>> THEN <<>> ELSE rs[1].notes \o ConcatNotes(Tail(rs))

RECURSIVE SumSizes(_)
SumSizes(rs) ==
    IF rs = <<>> THEN 0 ELSE Len(rs[1].notes) + SumSizes(Tail(rs))

Front(s) == SubSeq(s, 1, Len(s) - 1)
Last(s) == s[Len(s)]

SupportedCategories ==
    {"oral", "spotlight", "poster", "submitted", "reject", "withdrawn"}

\* C1: when the listing answers with non-empty pages p1..pk and then an
\* empty page, fetch_filtered_notes returns the notes of those pages
\* concatenated in request order, of length p1+...+pk; an empty first page
\* gives the empty list and no exception.
C1_PagesConcatenated ==
    fpc = "done" =>
        /\ err = NoError
        /\ Last(served).notes = <<>>
        /\ \A k \in 1..(Len(served) - 1) : served[k].notes # <<>>
        /\ returned = Return(ConcatNotes(Front(served)))
        /\ Len(returned[1]) = SumSizes(Front(served))
        /\ (Len(served) = 1 => returned = Return(<<>>))

C1_Witness ==
    /\ fpc = "done"
    /\ Len(served) = 3
    /\ served[1].notes = <<"n2", "n1">>
    /\ served[2].notes = <<"n1">>
    /\ returned = Return(<<"n2", "n1", "n1">>)

\* C2 as stated: a response with any status outside 200..299 makes the
\* fetch fail at once with an HTTPError carrying that status; it is the
\* last request and nothing is returned.
C2_Non2xxFailsImmediately ==
    \A k \in 1..Len(served) :
        (served[k].status < 200 \/ served[k].status > 299) =>
            /\ fpc = "raised"
            /\ err = [type |-> "HTTPError", status |-> served[k].status]
            /\ k = Len(served)
            /\ Len(requests) = k
            /\ returned = NoReturn

\* C2 amended: a response with a 4xx or 5xx status makes the fetch fail at
\* once with an HTTPError carrying that status; it is the last request and
\* the notes accumulated so far are not returned.
C2_ErrorStatusFailsImmediately ==
    \A k \in 1..Len(served) :
        (served[k].status >= 400 /\ served[k].status <= 599) =>
            /\ fpc = "raised"
            /\ err = [type |-> "HTTPError", status |-> served[k].status]
            /\ k = Len(served)
            /\ Len(requests) = k
            /\ returned = NoReturn

C2_Witness ==
    /\ fpc = "raised"
    /\ err = [type |-> "HTTPError", status |-> 404]
    /\ Len(served) = 2
    /\ all_notes # <<>>
    /\ returned = NoReturn

\* C3: a category outside the supported set fails with ValueError (the
\* configuration error) before any GET is sent.
C3_UnsupportedFailsBeforeNetwork ==
    (fpc # "idle" /\ filter_type \notin SupportedCategories) =>
        /\ fpc = "raised"
        /\ err.type = "ValueError"
        /\ requests = <<>>
        /\ served = <<>>

C3_Witness ==
    /\ fpc = "raised"
    /\ filter_type = "desk_rejected"
    /\ err.type = "ValueError"
    /\ requests = <<>>

\* C4: the loop is left only on an empty page or a failing response, it is
\* never left after a non-empty page however short, and it is left
\* eventually once the remote has no further non-empty page.
C4_Step ==
    /\ (fpc = "loop" /\ fpc' = "done") =>
           (Last(served').json /\ Last(served').notes = <<>>)
    /\ (fpc = "loop" /\ served' # served /\ Last(served').json
          /\ Last(served').notes # <<>>
          /\ Last(served').status < 400) =>
           (fpc' = "loop" /\ Len(all_notes') > Len(all_notes))

C4_TerminatedOnlyByEmptyPage ==
    /\ [][C4_Step]_vars
    /\ (fpc = "loop") ~> (fpc \in {"done", "raised"})

C4_Witness ==
    /\ fpc = "done"
    /\ Len(served) = 3
    /\ Len(served[1].notes) = 1
    /\ Len(served[2].notes) = 2

\* ------------------------------------------------------------------------
\* Properties of fetch_author_profile
\* ------------------------------------------------------------------------
\* C6: a non-200 response, a network error or a parse exception never
\* raises out of fetch_author_profile: the result is a record holding the
\* author_id, exactly {"author_id": X} for a non-200 status and author_id
\* plus an error description for an exception (in both implementations).
C6_DegradedRecord ==
    ppc = "returned" =>
        /\ ~p_out.raised
        /\ "author_id" \in DOMAIN p_out.value
        /\ p_out.value.author_id = p_author_id
        /\ (p_resp.kind = "response" /\ p_resp.status # 200) =>
               p_out.value = [author_id |-> p_author_id]
        /\ (p_resp.kind = "network_error"
              \/ (p_resp.kind = "response" /\ p_resp.status = 200
                    /\ p_resp.page.calendar = "no_sibling")) =>
               /\ DOMAIN p_out.value = {"author_id", "error"}
               /\ p_out.value.error # ""

C6_Witness ==
    /\ ppc = "returned"
    /\ p_impl = "api"
    /\ p_resp.kind = "response"
    /\ p_resp.status = 404
    /\ p_author_id = <<"a">>
    /\ p_out = Returned([author_id |-> <<"a">>])

\* ------------------------------------------------------------------------
\* Properties of the profile batch and of the endpoints
\* ------------------------------------------------------------------------
RealAuthorIds == AuthorIdValues \ {<<>>}

\* C5: author ids are deduplicated before fetching: however many
\* submissions reference an id, the batch issues exactly one GET for every
\* distinct referenced id and none for an id no submission references.
C5_OneFetchPerDistinctId ==
    /\ \A x \in AuthorIdValues :
          /\ fetch_count[x] <= 1
          /\ fetch_count[x] > 0 => x \in referenced
    /\ bpc = "done" =>
          \A x \in RealAuthorIds :
              fetch_count[x] = (IF x \in referenced THEN 1 ELSE 0)

C5_Witness ==
    /\ bpc = "done"
    /\ variant = "pre2024"
    /\ <<"b">> \in multi_referenced
    /\ referenced = RealAuthorIds
    /\ \A x \in RealAuthorIds : fetch_count[x] = 1

\* C7: under every interleaving of the fetch tasks, the number of
\* simultaneously open connections never exceeds the cap of 50, however
\* many author ids the batch holds.
C7_OpenConnectionsCapped ==
    /\ pool_open <= 50
    /\ OpenConnections(tstate) <= 50

C7_Witness ==
    /\ pool_open = 50
    /\ pool_pending > 0

\* C8: the batch completes as the join of all its tasks and a failing task
\* never aborts it: gather returns only when every task has returned, and
\* then every task, failed or not, has contributed its record.
C8_JoinOfAllTasks ==
    /\ bpc # "raised"
    /\ bpc = "done" =>
          \A i \in DOMAIN tstate :
              /\ tstate[i] = "done"
              /\ profiles[i] # NoProfile
              /\ "author_id" \in DOMAIN profiles[i]

C8_Witness ==
    /\ bpc = "done"
    /\ Len(profiles) = 3
    /\ "error" \in DOMAIN profiles[1]
    /\ DOMAIN profiles[2] = {"author_id"}
    /\ "name" \in DOMAIN profiles[3]

\* C9: each task owns its output slot: under every completion order the
\* result list has one record per input id and the i-th record carries the
\* i-th input id.
C9_OwnOutputSlot ==
    bpc \in {"gathering", "done"} =>
        /\ Len(profiles) = Len(author_ids)
        /\ \A i \in DOMAIN profiles :
              /\ (tstate[i] = "done") <=> (profiles[i] # NoProfile)
              /\ tstate[i] = "done" => profiles[i].author_id = author_ids[i]

C9_OutOfOrderWitness ==
    /\ bpc = "gathering"
    /\ Len(author_ids) = 3
    /\ tstate[1] = "pending"
    /\ tstate[2] = "open"
    /\ tstate[3] = "done"

\* C10: the two pipelines run one after the other: no profile fetch is
\* issued before the extraction of every requested year has completed, and
\* every fetched id comes from a submission listed in this invocation.
C10_PipelinesSequential ==
    (bpc # "idle" \/ \E x \in AuthorIdValues : fetch_count[x] > 0) =>
        /\ years_processed = 1..Len(req_years)
        /\ SeqToSet(author_ids) \subseteq referenced
        /\ \A x \in AuthorIdValues : fetch_count[x] > 0 => x \in referenced

C10_Witness ==
    /\ bpc = "gathering"
    /\ Len(req_years) = 2
    /\ years_processed = {1, 2}
    /\ fetch_count[<<"a">>] = 1

\* ------------------------------------------------------------------------
\* Review extraction
\* ------------------------------------------------------------------------
OfficialReviewMarker == <<"Official", "_", "Review">>

\* the reply carries the official-review marker in its invitation
IsOfficialReview(reply) == Contains(reply.invitation, OfficialReviewMarker)

\* extraction of the reply's fields meets no value of an unexpected shape
WellFormedContent(reply) == reply.content.kind # "str"
HasSignature(reply) == ~reply.signatures.present \/ reply.signatures.list # <<>>

\* positions of the official-review replies, in reply order
ReviewReplyPositions(replies) ==
    SelectSeq([k \in 1..Len(replies) |-> k],
              LAMBDA k : IsOfficialReview(replies[k]))

\* the reply positions of the returned records, in output order
RecordPositions(out) == [i \in 1..Len(out.value) |-> out.value[i].review_id]

\* C11: for replies whose fields all extract cleanly, the extractor returns
\* exactly one record per reply whose invitation contains the
\* official-review marker, none for any other reply, in reply order.
C11_OneRecordPerReviewReply ==
    (/\ xpc = "returned"
     /\ \A k \in 1..Len(x_replies) :
            WellFormedContent(x_replies[k]) /\ HasSignature(x_replies[k]))
    => /\ ~x_out.raised
       /\ RecordPositions(x_out) = ReviewReplyPositions(x_replies)

\* C12: in both extractors a reply whose field extraction errors (here: a
\* content value that is not a mapping) is skipped and does not abort the
\* rest: the call returns, and every other official-review reply still has
\* its record.
C12_ErroringReplySkipped ==
    (/\ xpc = "returned"
     /\ \A k \in 1..Len(x_replies) : HasSignature(x_replies[k])
     /\ \E k \in 1..Len(x_replies) :
            IsOfficialReview(x_replies[k]) /\ ~WellFormedContent(x_replies[k]))
    => /\ ~x_out.raised
       /\ \A k \in 1..Len(x_replies) :
            (IsOfficialReview(x_replies[k]) /\ WellFormedContent(x_replies[k]))
            => \E i \in 1..Len(x_out.value) : x_out.value[i].review_id = k
       /\ \A i \in 1..Len(x_out.value) :
            WellFormedContent(x_replies[x_out.value[i].review_id])

\* the reviewer the record of a reply must name
ExpectedReviewer(reply) ==
    IF reply.signatures.list # <<>> THEN reply.signatures.list[1]
    ELSE <<"Anonymous">>

\* C13: every official-review reply with extractable content yields a record
\* whose reviewer is the first signature if there is one and "Anonymous"
\* otherwise, also when the signatures field is present but empty.
C13_ReviewerOrAnonymous ==
    (/\ xpc = "returned"
     /\ \A k \in 1..Len(x_replies) : WellFormedContent(x_replies[k]))
    => /\ ~x_out.raised
       /\ \A k \in 1..Len(x_replies) :
            IsOfficialReview(x_replies[k])
            => \E i \in 1..Len(x_out.value) :
                 /\ x_out.value[i].review_id = k
                 /\ x_out.value[i].reviewer = ExpectedReviewer(x_replies[k])

\* "SUMMARY: ok\n\nSTRENGTHS: good"
TextOkGood ==
    <<"SUMMARY", ":", " ", "ok", "\n\n", "STRENGTHS", ":", " ", "good">>
\* "REVIEW: fine"
TextReviewOnly == <<"REVIEW", ":", " ", "fine">>

\* C14: full_review_text of a record lists the non-empty sections of the
\* fixed list as "<UPPER>: <text>" joined by a blank line and trimmed:
\* summary "ok" with strengths "good " gives "SUMMARY: ok\n\nSTRENGTHS: good",
\* a reply with only a review section gives "REVIEW: <text>", and a reply
\* with no content gives the empty text.
C14_FullReviewText ==
    (xpc = "returned" /\ ~x_out.raised)
    => \A i \in 1..Len(x_out.value) :
         LET content == x_replies[x_out.value[i].review_id].content
             text == x_out.value[i].full_review_text
         IN  /\ content = ContentOkGood => text = TextOkGood
             /\ content = ContentReviewOnly => text = TextReviewOnly
             /\ content = ContentAbsent => text = <<>>

\* ------------------------------------------------------------------------
\* Paper extraction
\* ------------------------------------------------------------------------
\* the content fields an implementation reads, and the key of the record
\* each one is stored under
FieldsRead(impl) ==
    IF impl = "collector" THEN PaperFields \ {"venue"} ELSE PaperFields
RecordKey(impl, field) ==
    IF impl = "collector" /\ field = "authorids" THEN "author_ids" ELSE field

\* C15: the note extractor returns one record and never raises; a field that
\* is absent, or any field of a note with no content, is the empty string in
\* the record.
C15_AbsentFieldsEmpty ==
    npc = "returned"
    => /\ ~n_out.raised
       /\ \A f \in FieldsRead(n_impl) :
            (~n_note.has_content \/ n_note.content[f] = "absent")
            => n_out.value[RecordKey(n_impl, f)] = Plain(<<>>)

\* a note with content that lacks some field, and a note with no content
C15_Witness ==
    /\ npc = "returned"
    /\ \/ ~n_note.has_content
       \/ /\ n_note.content["title"] = "absent"
          /\ n_note.content["authors"] = "plain"

\* C16: a field sent plain as v and sent wrapped as {"value": v} give the
\* same record, for scalar and for list fields.
C16_WrappedEqualsPlain ==
    npc = "returned" => n_out = n_out_plain

\* ------------------------------------------------------------------------
\* Flattening of the profile batch
\* ------------------------------------------------------------------------
\* the career history a profile record carries
History(p) ==
    IF "career_and_education_history" \in DOMAIN p
    THEN p.career_and_education_history ELSE <<>>

\* the number of rows policy (b) owes a profile
RowsOwed(p) == IF Len(History(p)) >= 1 THEN Len(History(p)) ELSE 1

RECURSIVE RowStart(_, _)
\* the number of rows owed to the profiles before the i-th
RowStart(ps, i) ==
    IF i = 1 THEN 0 ELSE RowStart(ps, i - 1) + RowsOwed(ps[i - 1])

\* C17: under policy (b) a profile with n >= 1 history entries yields n
\* rows in history order that agree on the scalar fields and carry the
\* position, institution and timeframe of their entry; a profile with no
\* entry, a degraded record included, yields one row with the three empty.
C17_RowPerHistoryEntry ==
    (bpc = "done" /\ variant = "collector") =>
        /\ Len(author_rows) = RowStart(profiles, Len(profiles) + 1)
        /\ \A i \in DOMAIN profiles :
             LET h == History(profiles[i])
                 s == RowStart(profiles, i)
             IN  /\ \A k \in 1..RowsOwed(profiles[i]) :
                       /\ author_rows[s + k].scalars.author_id
                              = profiles[i].author_id
                       /\ author_rows[s + k].scalars = author_rows[s + 1].scalars
                 /\ \A k \in 1..Len(h) :
                       /\ author_rows[s + k].position = h[k].position
                       /\ author_rows[s + k].institution = h[k].institution
                       /\ author_rows[s + k].timeframe = h[k].timeframe
                 /\ h = <<>> =>
                       /\ author_rows[s + 1].position = <<>>
                       /\ author_rows[s + 1].institution = <<>>
                       /\ author_rows[s + 1].timeframe = <<>>

\* a degraded record followed by a profile with two history entries
C17_Witness ==
    /\ bpc = "done"
    /\ variant = "collector"
    /\ Len(profiles) = 2
    /\ DOMAIN profiles[1] = {"author_id"}
    /\ Len(History(profiles[2])) = 2
    /\ Len(author_rows) = 3
    /\ author_rows[2].position # author_rows[3].position

\* "PhD; Prof", "MIT; ", "2015-2018; " and "Adv: Bob (2015-2018)"
PositionsText == <<"P", "h", "D", ";", " ", "P", "r", "o", "f">>
InstitutionsText == <<"M", "I", "T", ";", " ">>
TimeframesText == <<"2", "0", "1", "5", "-", "2", "0", "1", "8", ";", " ">>
AdvisorsText ==
    <<"A", "d", "v", ":", " ", "B", "o", "b", " ", "(",
      "2", "0", "1", "5", "-", "2", "0", "1", "8", ")">>

\* C18: under policy (a) a batch of n profiles yields n rows, the i-th for
\* the i-th profile with its author_id, degraded records included; the
\* history columns are "; "-joined and an advisor is rendered as
\* "<type>: <name> (<timeframe>)".
C18_RowPerProfile ==
    (bpc = "done" /\ variant \in {"pre2024", "v2"}) =>
        /\ Len(author_rows) = Len(profiles)
        /\ \A i \in DOMAIN profiles :
             /\ author_rows[i].scalars.author_id = profiles[i].author_id
             /\ Len(History(profiles[i])) = 2 =>
                   /\ author_rows[i].positions = PositionsText
                   /\ author_rows[i].institutions = InstitutionsText
                   /\ author_rows[i].timeframes = TimeframesText
                   /\ author_rows[i].scalars.advisors = AdvisorsText
             /\ History(profiles[i]) = <<>> =>
                   /\ author_rows[i].positions = <<>>
                   /\ author_rows[i].institutions = <<>>
                   /\ author_rows[i].timeframes = <<>>

\* a full profile between two degraded records
C18_Witness ==
    /\ bpc = "done"
    /\ variant = "pre2024"
    /\ Len(profiles) = 3
    /\ "error" \in DOMAIN profiles[1]
    /\ Len(History(profiles[2])) = 2
    /\ DOMAIN profiles[3] = {"author_id"}
    /\ Len(author_rows) = 3

\* ------------------------------------------------------------------------
\* Listing failures
\* ------------------------------------------------------------------------
\* the listing of the year at position k failed
FailedPosition(k) == cpc = "raised" /\ k = ci
\* the year at position k is in the response of the endpoint
Reported(k) == cf_out.status = "success" /\ cf_years[k] \in DOMAIN cf_out.counts

\* C19: when the filtered collection endpoint has ended, a failure of the
\* listing of one year has aborted only that year: every other requested
\* year, before or after it, has been fetched and is in the response.
C19_FailedYearAbortsOnlyItself ==
    (\/ cpc = "done"
     \/ cpc = "raised" /\ cf_out.error \in FetchErrors)
    => \A k \in 1..Len(cf_years) :
          ~FailedPosition(k) => (k < ci /\ Reported(k))

\* C20: a failed listing request is surfaced as a structured failure: when
\* an endpoint returns success, every year whose listing request failed has
\* an entry in the results that carries an error message.
C20_ListingFailureSurfaced ==
    (rpc = "done" /\ run_out.status = "success") =>
        \A y \in failed_years :
            /\ y \in DOMAIN run_out.results
            /\ run_out.results[y].error # ""

\* ------------------------------------------------------------------------
\* Page requests of fetch_filtered_notes
\* ------------------------------------------------------------------------
\* the response is a page without notes (and not an error)
EmptyPage(resp) == resp.json /\ resp.notes = <<>> /\ ~raises_for_status(resp.status)

\* C23: the k-th page request carries the filter's fields, limit = page
\* size and offset = (k-1) * page size, whatever the number of notes of the
\* pages before it, and no request follows the first empty page.
C23_OffsetsByPageSize ==
    /\ Len(requests) = Len(served)
    /\ \A k \in 1..Len(requests) :
          /\ requests[k].base = filter_params_map(year)[filter_type]
          /\ requests[k].limit = batch_size
          /\ requests[k].offset = (k - 1) * batch_size
    /\ \A k \in 1..Len(served) : EmptyPage(served[k]) => k = Len(served)

\* a page of one note and a page of two, then the empty page
C23_Witness ==
    /\ fpc = "done"
    /\ Len(requests) = 3
    /\ Len(served[1].notes) = 1
    /\ Len(served[2].notes) = 2
    /\ EmptyPage(served[3])
    /\ requests[3].offset = 2 * batch_size

\* ------------------------------------------------------------------------
\* The profile batch of the top-level API module
\* ------------------------------------------------------------------------
\* C24: in the top-level API module, whenever at least one author id has
\* been collected, collect_data_with_authors ends with the batch run to
\* completion: one author row per distinct id and a success summary whose
\* author_count is the number of distinct ids.
C24_ApiBatchCompletes ==
    (variant = "api" /\ rpc \in {"done", "raised"} /\ all_author_ids # {}) =>
        /\ rpc = "done"
        /\ run_out.status = "success"
        /\ run_out.author_count = Cardinality(all_author_ids)
        /\ Len(author_rows) = Cardinality(all_author_ids)

\* ------------------------------------------------------------------------
\* The author ids handed to the profile batch
\* ------------------------------------------------------------------------
\* C26: in every endpoint variant, no id handed to the profile batch is the
\* empty string or carries surrounding whitespace, also when a paper's
\* author-id list holds an empty entry.
C26_NoEmptyAuthorId ==
    bpc # "idle" =>
        \A i \in 1..Len(author_ids) :
            /\ author_ids[i] # <<>>
            /\ Strip(author_ids[i]) = author_ids[i]

\* ------------------------------------------------------------------------
\* The categories of collect_filtered and fetch_filtered_notes
\* ------------------------------------------------------------------------
\* C25: the two agree on the supported categories: the fetch triggered by a
\* category collect_filtered accepts never fails as unsupported, and for a
\* category fetch_filtered_notes supports collect_filtered calls the fetch
\* instead of returning an empty list.
C25_CategoriesAgree ==
    /\ cpc = "raised" => cf_out.error # "ValueError"
    /\ \A k \in 1..Len(cf_years) :
          (k < ci /\ is_supported(cf_filter, cf_years[k])) => k \in cf_fetched

\* ------------------------------------------------------------------------
\* Invocations on the same process
\* ------------------------------------------------------------------------
\* C22: nothing carries over between invocations: in every invocation,
\* also one that follows an invocation which collected ids, the id set
\* holds only ids of submissions listed in this invocation, the batch is
\* handed exactly that set, no other id is fetched, and the per-year results
\* are those of the requested years.
C22_NoCarryOver ==
    /\ all_author_ids \subseteq referenced
    /\ DOMAIN results \subseteq SeqToSet(req_years)
    /\ bpc # "idle" =>
          /\ SeqToSet(author_ids) = all_author_ids
          /\ \A x \in AuthorIdValues : fetch_count[x] > 0 => x \in all_author_ids
    /\ bpc = "done" => run_out.author_count = Cardinality(all_author_ids)

\* an invocation that found only "b", after one that had collected ids
C22_Witness ==
    /\ carried
    /\ bpc = "done"
    /\ referenced = {<<"b">>}
    /\ all_author_ids = {<<"b">>}
    /\ fetch_count[<<"a">>] = 0
    /\ fetch_count[<<"b">>] = 1


\* ------------------------------------------------------------------------
\* Properties of the per-year extraction loop
\* ------------------------------------------------------------------------
PaperIdsOf(rows) == {rows[j].paper_id : j \in 1..Len(rows)}

\* C21: every review record carries the paper_id of a paper record of the
\* same year: in the lists the loop builds whenever it has not been left by
\* an exception, and in the two files it writes
C21_ReviewReferencesPaper ==
    /\ ypc # "raised" => PaperIdsOf(reviews_data) \subseteq PaperIdsOf(papers_data)
    /\ PaperIdsOf(reviews_csv) \subseteq PaperIdsOf(papers_csv)
    /\ ypc = "saved" => /\ papers_csv = papers_data
                        /\ reviews_csv = reviews_data

C21_Witness ==
    /\ ypc = "saved"
    /\ Len(papers_csv) = 2
    /\ papers_csv[1].title = Plain(<<>>)
    /\ PaperIdsOf(reviews_csv) = {"n1", "n2"}
    /\ PaperIdsOf(papers_csv) = {"n1", "n2"}

====
